---- MODULE Spec2Model ----
(***************************************************************************)
(* Model of the entity / in-memory repository layer of isshub:             *)
(*   src/isshub/domain/utils/entity.py                                      *)
(*   src/isshub/domain/utils/repository.py                                  *)
(*   src/isshub/domain/contexts/code_repository/entities/namespace          *)
(*   src/isshub/domain/contexts/code_repository/entities/repository         *)
(*   src/isshub/domain/contexts/code_repository/repositories/namespace      *)
(*   src/isshub/domain/contexts/code_repository/repositories/repository     *)
(*                                                                         *)
(* A pool of entity objects lives next to one repository.  The repository  *)
(* holds REFERENCES to the objects it stores (a Python set), so a field    *)
(* assignment on a stored object is seen by the repository at once.        *)
(***************************************************************************)
EXTENDS Integers, FiniteSets, Sequences, TLC

\* ---- bounds -------------------------------------------------------------
NumObj == 3       \* entity objects the caller has constructed
NumNames == 2     \* distinct valid (str) names
MaxAssign == 2    \* assignment statements run after construction

Obj == 1..NumObj
Names == 1..NumNames

\* Python's None, as the value of a field.
None == 0

\* A value of another type than the one a field asks for (an int given for a
\* str); it is not None.
WrongTyped == -1

\* A keyword argument that the caller of a constructor leaves out.
NotGiven == -2

\* The three repository classes: AbstractInMemoryRepository.add unchanged
\* ("base"), InMemoryNamespaceRepository, InMemoryRepositoryRepository.
RepoKinds == {"base", "namespace", "repository"}

\* The entity classes.
Classes == {"Namespace", "Repository"}

VARIABLES
    repository_classes,  \* the repository classes defined so far, by class id
    class,        \* [Obj -> Classes]     the class each object is an instance of
    identifier,   \* [Obj -> identifier]   BaseEntityWithIdentifier.identifier (frozen)
    name,         \* [Obj -> Names \cup {None, WrongTyped}]  the `name` field
    namespace,    \* [Obj -> Obj \cup {None}]    the `namespace` field
    collection,   \* AbstractInMemoryRepository._collection, a set of object references
    repoKind,     \* the class of the repository instance
    last,         \* the last call made: [op, entity, result]
    pre,          \* _collection as it was when the last call started
    assigns       \* number of assignment statements (and rebuilds) run so far

vars == <<repository_classes, class, identifier, name, namespace, collection,
          repoKind, last, pre, assigns>>

\* ---- entity.py -----------------------------------------------------------

\* hash() of an identifier, a machine word: different identifiers may have
\* the same hash.
HashMod == 2

hash(id) == id % HashMod

\* BaseEntityWithIdentifier.__hash__
entity_hash(a) == hash(identifier[a])

\* Faulty __eq__: the classes are not compared.
entity_eq_no_class(a, b) ==
    IF a = None \/ b = None THEN a = b ELSE identifier[a] = identifier[b]

\* BaseEntityWithIdentifier.__eq__: same class and same identifier.  None is
\* equal to None only.
entity_eq(a, b) ==
    IF a = None \/ b = None THEN a = b
    ELSE class[a] = class[b] /\ identifier[a] = identifier[b]

\* Namespace.validate_namespace_is_not_in_a_loop(self, field, value), run as
\* the walk  parent = value; while parent := parent.namespace: ...
\* `fuel` counts the objects the walk may still visit: once it has made
\* NumObj steps without meeting None or an object equal to `value`, the walk
\* is inside a cycle that does not hold `value` and never leaves it.
RECURSIVE loop_walk(_, _, _)
loop_walk(value, parent, fuel) ==
    LET next == namespace[parent] IN
    IF next = None THEN "ok"
    ELSE IF entity_eq(next, value) THEN "ValueError"
    ELSE IF fuel = 0 THEN "hang"
    ELSE loop_walk(value, next, fuel - 1)

\* Faulty loop check: only a namespace that is its own parent is refused.
validate_namespace_is_not_its_parent(value) ==
    IF value = None THEN "ok"
    ELSE IF entity_eq(namespace[value], value) THEN "ValueError"
    ELSE "ok"

validate_namespace_is_not_in_a_loop(value) ==
    IF value = None THEN "ok" ELSE loop_walk(value, value, NumObj)

\* attr.validators.instance_of(str) on the value of a `name` field.
instance_of_str(v) == IF v \in Names THEN "ok" ELSE "TypeError"

\* attr.validators.instance_of(Namespace) on the value of a `namespace` field.
instance_of_namespace(v) ==
    IF v \in Obj /\ class[v] = "Namespace" THEN "ok" ELSE "TypeError"

\* Faulty required_field: None is let through.
required_field_none_ok(check, v) == IF v = None THEN "ok" ELSE check

\* required_field(field_type): the validator is instance_of(field_type);
\* `check` is its verdict on the value v.
required_field(check, v) == check

\* Faulty optional_field: None is refused as any value of another type.
optional_field_strict(check, v) == check

\* optional_field(field_type): the validator is optional(instance_of(...)),
\* which lets None through.
optional_field(check, v) == IF v = None THEN "ok" ELSE check

\* Faulty validation: on the namespace field of a Namespace the loop
\* validator runs before the type check.
validate_fields_custom_first(cls, n, ns) ==
    LET vn == required_field(instance_of_str(n), n) IN
    IF vn # "ok" THEN vn
    ELSE IF cls = "Repository"
         THEN required_field(instance_of_namespace(ns), ns)
         ELSE LET vl == IF ns \in Obj
                        THEN validate_namespace_is_not_in_a_loop(ns)
                        ELSE "ok"
              IN  IF vl # "ok" THEN vl
                  ELSE optional_field(instance_of_namespace(ns), ns)

\* attr.validate(instance) on an instance of class `cls` holding the field
\* values n (name) and ns (namespace): the fields in declaration order, for
\* each the type check and then its field validator; the first failure is
\* raised.  identifier is frozen and was validated by the constructor.
\*   Namespace : name (required str), namespace (optional + loop validator)
\*   Repository: name (required str), namespace (required Namespace)
validate_fields(cls, n, ns) ==
    LET vn == required_field(instance_of_str(n), n) IN
    IF vn # "ok" THEN vn
    ELSE IF cls = "Repository"
         THEN required_field(instance_of_namespace(ns), ns)
         ELSE LET vt == optional_field(instance_of_namespace(ns), ns) IN
              IF vt # "ok" THEN vt
              ELSE validate_namespace_is_not_in_a_loop(ns)

\* BaseEntity.validate() -> validate_instance(self)
validate(e) == validate_fields(class[e], name[e], namespace[e])

\* ---- repository.py -------------------------------------------------------

\* set.add / set.remove of Python, on a set whose members are compared with
\* __eq__ / __hash__ of BaseEntityWithIdentifier.
set_add(c, e) ==
    IF \E s \in c : entity_eq(s, e) THEN c ELSE c \cup {e}

set_remove(c, e) == {s \in c : ~entity_eq(s, e)}

\* AbstractInMemoryRepository.exists
exists(c, id) == \E s \in c : identifier[s] = id

\* AbstractInMemoryRepository.get
get(c, id) ==
    LET found == {s \in c : identifier[s] = id} IN
    IF found = {} THEN [result |-> "NotFoundError", entity |-> None]
    ELSE [result |-> "ok", entity |-> CHOOSE s \in found : TRUE]

\* Faulty for_namespace: a parent of None selects nothing (None never equal).
for_namespace_no_none(c, ns) ==
    {s \in c : namespace[s] # None /\ ns # None /\ entity_eq(namespace[s], ns)}

\* Faulty for_namespace: the parent is compared by object identity (is).
for_namespace_by_reference(c, ns) == {s \in c : namespace[s] = ns}

\* InMemoryNamespaceRepository.for_namespace / InMemoryRepositoryRepository.for_namespace
for_namespace(c, ns) == {s \in c : entity_eq(namespace[s], ns)}

\* Faulty add: reports success without storing the entity.
base_add_no_insert(c, e) ==
    LET v == validate(e) IN
    IF v # "ok" THEN [result |-> v, coll |-> c]
    ELSE IF exists(c, identifier[e]) THEN [result |-> "UniquenessError", coll |-> c]
    ELSE [result |-> "ok", coll |-> c]

\* Faulty add: no exists() check before the insertion.
base_add_no_exists_check(c, e) ==
    LET v == validate(e) IN
    IF v # "ok" THEN [result |-> v, coll |-> c]
    ELSE [result |-> "ok", coll |-> set_add(c, e)]

\* Faulty add: the entity is inserted before it is validated.
base_add_insert_first(c, e) ==
    LET v == validate(e) IN
    IF exists(c, identifier[e]) THEN [result |-> "UniquenessError", coll |-> c]
    ELSE IF v # "ok" THEN [result |-> v, coll |-> set_add(c, e)]
    ELSE [result |-> "ok", coll |-> set_add(c, e)]

\* Faulty add: the identifier is looked up before the entity is validated.
base_add_exists_first(c, e) ==
    IF exists(c, identifier[e]) THEN [result |-> "UniquenessError", coll |-> c]
    ELSE LET v == validate(e) IN
         IF v # "ok" THEN [result |-> v, coll |-> c]
         ELSE [result |-> "ok", coll |-> set_add(c, e)]

\* AbstractInMemoryRepository.add
base_add(c, e) ==
    LET v == validate(e) IN
    IF v # "ok" THEN [result |-> v, coll |-> c]
    ELSE IF exists(c, identifier[e]) THEN [result |-> "UniquenessError", coll |-> c]
    ELSE [result |-> "ok", coll |-> set_add(c, e)]

\* Faulty domain add: the name + parent scan is missing.
add_no_name_check(c, e) == base_add(c, e)

\* InMemoryNamespaceRepository.add / InMemoryRepositoryRepository.add:
\* the name + parent scan, then super().add(entity).
add(c, e) ==
    IF repoKind # "base" /\ \E s \in for_namespace(c, namespace[e]) : name[s] = name[e]
    THEN [result |-> "UniquenessError", coll |-> c]
    ELSE base_add(c, e)

\* Faulty delete: the object passed is removed when it is the stored one,
\* and nothing is removed for another object of the stored identifier.
delete_by_reference(c, e) ==
    LET g == get(c, identifier[e]) IN
    IF g.result # "ok" THEN [result |-> g.result, coll |-> c]
    ELSE [result |-> "ok", coll |-> c \ {e}]

\* Faulty delete: the entity is looked up but not removed.
delete_no_remove(c, e) ==
    LET g == get(c, identifier[e]) IN
    [result |-> g.result, coll |-> c]

\* AbstractInMemoryRepository.delete
delete(c, e) ==
    LET g == get(c, identifier[e]) IN
    IF g.result # "ok" THEN [result |-> g.result, coll |-> c]
    ELSE [result |-> "ok", coll |-> set_remove(c, g.entity)]

\* Faulty update: the old entry is not deleted before the add.
update_no_delete(c, e) ==
    LET v == validate(e) IN
    IF v # "ok" THEN [result |-> v, coll |-> c]
    ELSE IF ~exists(c, identifier[e]) THEN [result |-> "NotFoundError", coll |-> c]
    ELSE add(c, e)

\* Faulty update: the add step is AbstractInMemoryRepository.add, not self.add.
update_base_add(c, e) ==
    LET v == validate(e) IN
    IF v # "ok" THEN [result |-> v, coll |-> c]
    ELSE LET d == delete(c, e) IN
         IF d.result # "ok" THEN d
         ELSE base_add(d.coll, e)

\* Faulty update: the stored object is kept and the one given is not stored.
update_in_place(c, e) ==
    LET v == validate(e) IN
    IF v # "ok" THEN [result |-> v, coll |-> c]
    ELSE IF ~exists(c, identifier[e]) THEN [result |-> "NotFoundError", coll |-> c]
    ELSE [result |-> "ok", coll |-> c]

\* Faulty update: an entity that is not stored is added.
update_or_insert(c, e) ==
    LET v == validate(e) IN
    IF v # "ok" THEN [result |-> v, coll |-> c]
    ELSE LET d == delete(c, e) IN
         IF d.result # "ok" THEN add(c, e)
         ELSE add(d.coll, e)

\* Faulty update: the stored entry is deleted before the entity is validated.
update_delete_first(c, e) ==
    LET d == delete(c, e) IN
    IF d.result # "ok" THEN d
    ELSE LET v == validate(e) IN
         IF v # "ok" THEN [result |-> v, coll |-> d.coll]
         ELSE add(d.coll, e)

\* AbstractInMemoryRepository.update: validate, self.delete, self.add.
update(c, e) ==
    LET v == validate(e) IN
    IF v # "ok" THEN [result |-> v, coll |-> c]
    ELSE LET d == delete(c, e) IN
         IF d.result # "ok" THEN d
         ELSE add(d.coll, e)

\* ---- repository.py: the definition of repository classes -------------------

\* Repository classes are numbered in the order of their class statements:
\* AbstractRepository is the first.
AbstractRepository == 1

\* Class statements run after the ones of the packages.
MaxClassStatements == 1

\* A class attribute that holds None, and one that the class body does not
\* set (the lookup goes on to the next class of the resolution order).
NoClass == "None"

Absent == "absent"

\* The methods a class body deals with: the operations that AbstractRepository
\* declares ("add" stands for exists, add, get, update and delete, which the
\* classes define together) and for_namespace.
Methods == {"add", "for_namespace"}

\* The body of a class statement: the methods it declares abstract and the
\* methods it defines.
Bodies ==
    {b \in [abstract : SUBSET Methods, concrete : SUBSET Methods] :
        b.abstract \cap b.concrete = {}}

\* type(name, bases, {"repository": repository})
new_type(type_name, bases, repository) ==
    [name |-> type_name, bases |-> bases, repository |-> repository]

Exception == new_type("Exception", <<>>, None)

RepositoryException == new_type("RepositoryException", <<Exception>>, None)

UniquenessError == new_type("UniquenessError", <<RepositoryException>>, None)

NotFoundError == new_type("NotFoundError", <<RepositoryException>>, None)

\* AbstractRepository: entity_class is None, the two exception attributes are
\* annotations without value, the five operations are abstract.
AbstractRepositoryClass ==
    [bases |-> <<>>, mro |-> <<AbstractRepository>>, entity_class |-> NoClass,
     body |-> [abstract |-> {"add"}, concrete |-> {}],
     abstractmethods |-> {"add"},
     NotFoundError |-> new_type(Absent, <<>>, None),
     UniquenessError |-> new_type(Absent, <<>>, None)]

\* x comes after the head of the list s.
InTail(x, s) == \E k \in 2..Len(s) : s[k] = x

\* The C3 merge that type.__new__ runs on the resolution orders of the bases
\* and the list of the bases; Conflict marks an order that does not exist.
Conflict == 0

RECURSIVE c3_merge(_)
c3_merge(seqs) ==
    LET ne == SelectSeq(seqs, LAMBDA s : s # <<>>) IN
    IF ne = <<>> THEN <<>>
    ELSE LET cands == {i \in 1..Len(ne) :
                          \A j \in 1..Len(ne) : ~InTail(ne[i][1], ne[j])}
         IN  IF cands = {} THEN <<Conflict>>
             ELSE LET i == CHOOSE c \in cands : \A k \in cands : c <= k
                      h == ne[i][1]
                  IN  <<h>> \o c3_merge([j \in 1..Len(ne) |->
                                  IF ne[j][1] = h THEN Tail(ne[j]) ELSE ne[j]])

\* The resolution order of a new class below its own entry: the repository
\* classes among cls.mro()[1:].
mro_of_bases(table, bases) ==
    c3_merge([i \in 1..Len(bases) |-> table[bases[i]].mro] \o <<bases>>)

\* The first index of the list that satisfies the test (the list has one).
First(idx) == CHOOSE i \in idx : \A k \in idx : i <= k

\* klass.entity_class: the attribute as the first class of the resolution
\* order that sets it holds it.
getattr_entity_class(table, mro) ==
    table[mro[First({i \in 1..Len(mro) :
                        table[mro[i]].entity_class # Absent})]].entity_class

\* Faulty lookup: only the first parent class is asked for its own entity
\* class.
inherited_entity_class_of_parent(table, rest) ==
    IF table[rest[1]].entity_class = Absent THEN NoClass
    ELSE table[rest[1]].entity_class

\* The loop of __init_subclass__ over cls.mro(), for a class whose resolution
\* order is itself and then `rest`: the first klass.entity_class that is set
\* (the body of cls sets none: cls.entity_class is looked up in `rest`).
inherited_entity_class(table, rest) ==
    LET values == <<getattr_entity_class(table, rest)>>
                      \o [i \in 1..Len(rest) |->
                             getattr_entity_class(table, table[rest[i]].mro)]
        found == {i \in 1..Len(values) : values[i] # NoClass}
    IN  IF found = {} THEN NoClass ELSE values[First(found)]

\* getattr(cls, m).__isabstractmethod__ for a method name m that a base has:
\* the method is the one of the first class of the resolution order whose
\* body has it.
isabstractmethod(table, body, rest, m) ==
    IF m \in body.abstract \cup body.concrete THEN m \in body.abstract
    ELSE LET has == {i \in 1..Len(rest) :
                        m \in table[rest[i]].body.abstract
                                 \cup table[rest[i]].body.concrete}
         IN  m \in table[rest[First(has)]].body.abstract

\* The abstract methods of the class, as inspect.isabstract(cls) finds them in
\* __init_subclass__ and as ABCMeta stores them in __abstractmethods__ after
\* it: the ones that the body declares, and the ones of the bases that are
\* still abstract on the class.
abstractmethods(table, bases, rest, body) ==
    body.abstract
        \cup {m \in UNION {table[bases[i]].abstractmethods : i \in 1..Len(bases)} :
                 isabstractmethod(table, body, rest, m)}

isabstract(table, bases, rest, body) ==
    abstractmethods(table, bases, rest, body) # {}

\* Faulty binding: the exception type of a class derives from the one of its
\* first base.
bound_exception_of_parent(table, bases, shared, cls) ==
    LET parent == table[bases[1]] IN
    IF bases[1] = AbstractRepository THEN new_type(shared.name, <<shared>>, cls)
    ELSE new_type(shared.name,
                  <<IF shared.name = "NotFoundError" THEN parent.NotFoundError
                    ELSE parent.UniquenessError>>, cls)

\* type("NotFoundError", (NotFoundError,), {"repository": cls}), and the
\* same for UniquenessError.
bound_exception(table, bases, shared, cls) ==
    new_type(shared.name, <<shared>>, cls)

\* AbstractRepository.__init_subclass__(cls, abstract, entity_class) for the
\* class cls of bases `bases` and resolution order <<cls>> \o rest: the
\* result, and the entry of the class when the class statement returns.
init_subclass(table, cls, bases, rest, abstract, entity_class, body) ==
    LET found == IF entity_class = NoClass
                 THEN inherited_entity_class(table, rest)
                 ELSE entity_class
    IN  IF found = NoClass /\ ~(isabstract(table, bases, rest, body) \/ abstract)
        THEN [result |-> "TypeError"]
        ELSE [result |-> "ok",
              class |-> [bases |-> bases, mro |-> <<cls>> \o rest,
                         entity_class |-> IF found = NoClass THEN Absent
                                          ELSE found,
                         body |-> body,
                         abstractmethods |->
                             abstractmethods(table, bases, rest, body),
                         NotFoundError |->
                             bound_exception(table, bases, NotFoundError, cls),
                         UniquenessError |->
                             bound_exception(table, bases, UniquenessError, cls)]]

\* class AbstractInMemoryRepository(AbstractRepository[Entity], abstract=True),
\* which defines the five operations.
AbstractInMemoryRepository == 2

AbstractInMemoryRepositoryClass ==
    init_subclass(<<AbstractRepositoryClass>>, AbstractInMemoryRepository,
                  <<AbstractRepository>>, <<AbstractRepository>>,
                  TRUE, NoClass, [abstract |-> {}, concrete |-> {"add"}]).class

\* class AbstractNamespaceRepository(AbstractRepository[Namespace],
\* entity_class=Namespace), which declares the abstract for_namespace.
AbstractNamespaceRepository == 3

AbstractNamespaceRepositoryClass ==
    init_subclass(<<AbstractRepositoryClass, AbstractInMemoryRepositoryClass>>,
                  AbstractNamespaceRepository,
                  <<AbstractRepository>>, <<AbstractRepository>>,
                  FALSE, "Namespace",
                  [abstract |-> {"for_namespace"}, concrete |-> {}]).class

\* The classes that the packages define before any repository is used.
InitialClasses ==
    <<AbstractRepositoryClass, AbstractInMemoryRepositoryClass,
      AbstractNamespaceRepositoryClass>>

\* The class ids there can be.
ClassIds == 1..(Len(InitialClasses) + MaxClassStatements)

\* ---- the state machine ---------------------------------------------------

\* A call that never returns (the loop walk above) stops the program.
Hung == last.result = "hang"

\* Identifiers of the pool: the last object was built with the identifier of
\* the first one (two objects, one identifier), the others with their own.
InitIdentifier == [o \in Obj |-> IF o = NumObj THEN 1 ELSE o]

\* The fixture: objects built with the same name and no parent (Repository
\* entities: all in the Namespace 1), but for the last one, which got another
\* name.
InitName == [o \in Obj |-> IF o = NumObj THEN NumNames ELSE 1]

\* With an InMemoryRepositoryRepository the first object is the Namespace
\* that the Repository entities belong to.
InitClass(kind) ==
    [o \in Obj |-> IF kind = "repository" /\ o # 1 THEN "Repository" ELSE "Namespace"]

InitNamespace(kind) ==
    [o \in Obj |-> IF kind = "repository" /\ o # 1 THEN 1 ELSE None]

Identifiers == {InitIdentifier[o] : o \in Obj}

\* State after construction: an empty repository of class `kind`; every
\* object was built by its constructor, which validates eagerly, so that all
\* fields are valid.
InitKind(kinds) ==
    /\ repository_classes = InitialClasses
    /\ identifier = InitIdentifier
    /\ repoKind \in kinds
    /\ class = InitClass(repoKind)
    /\ name = InitName
    /\ namespace = InitNamespace(repoKind)
    /\ collection = {}
    /\ last = [op |-> "init", entity |-> None, result |-> "ok"]
    /\ pre = {}
    /\ assigns = 0

\* An InMemoryNamespaceRepository and a pool of Namespace entities.
Init == InitKind({"namespace"})

Call(op, e, r) ==
    /\ ~Hung
    /\ last' = [op |-> op, entity |-> e, result |-> r.result]
    /\ pre' = collection
    /\ collection' = r.coll
    /\ UNCHANGED <<repository_classes, class, identifier, name, namespace, repoKind, assigns>>

Add(e) == Call("add", e, add(collection, e))

Update(e) == Call("update", e, update(collection, e))

Delete(e) == Call("delete", e, delete(collection, e))

\* entity.name = v   (no validation on assignment)
SetName(e, v) ==
    /\ ~Hung
    /\ assigns < MaxAssign
    /\ v # name[e]
    /\ name' = [name EXCEPT ![e] = v]
    /\ assigns' = assigns + 1
    /\ last' = [op |-> "setattr", entity |-> e, result |-> "ok"]
    /\ pre' = collection
    /\ UNCHANGED <<repository_classes, class, identifier, namespace, collection, repoKind>>

\* entity.namespace = v   (no validation on assignment)
SetNamespace(e, v) ==
    /\ ~Hung
    /\ assigns < MaxAssign
    /\ v # namespace[e]
    /\ namespace' = [namespace EXCEPT ![e] = v]
    /\ assigns' = assigns + 1
    /\ last' = [op |-> "setattr", entity |-> e, result |-> "ok"]
    /\ pre' = collection
    /\ UNCHANGED <<repository_classes, class, identifier, name, collection, repoKind>>

\* A field that is not frozen: the assignment takes effect.
plain_setattr(old, v) == [result |-> "ok", value |-> v]

\* Faulty frozen field: the assignment is dropped without an error.
silent_setattr(old, v) == [result |-> "ok", value |-> old]

\* What attr.setters.frozen does with  entity.identifier = v .
frozen_setattr(old, v) == [result |-> "FrozenAttributeError", value |-> old]

\* entity.identifier = v
SetIdentifier(e, v) ==
    LET r == frozen_setattr(identifier[e], v) IN
    /\ ~Hung
    /\ assigns < MaxAssign
    /\ v # identifier[e]
    /\ identifier' = [identifier EXCEPT ![e] = r.value]
    /\ assigns' = assigns + 1
    /\ last' = [op |-> "setidentifier", entity |-> e, result |-> r.result]
    /\ pre' = collection
    /\ UNCHANGED <<repository_classes, class, name, namespace, collection, repoKind>>

Next ==
    \/ \E e \in Obj : Add(e)
    \/ \E e \in Obj : Update(e)
    \/ \E e \in Obj : Delete(e)
    \/ \E e \in Obj, v \in Names \cup {None} : SetName(e, v)
    \/ \E e \in Obj, v \in Obj \cup {None} : SetNamespace(e, v)
    \/ \E e \in Obj, v \in Identifiers : SetIdentifier(e, v)

Spec == Init /\ [][Next]_vars

\* An InMemoryRepositoryRepository and a pool of Repository entities.
InitRepository == InitKind({"repository"})

SpecRepository == InitRepository /\ [][Next]_vars

\* Either of the two domain repositories.
InitDomain == InitKind({"namespace", "repository"})

SpecDomain == InitDomain /\ [][Next]_vars

\* AbstractInMemoryRepository itself (add not overridden).
InitBase == InitKind({"base"})

SpecBase == InitBase /\ [][Next]_vars

\* Any of the three repositories, with add as the only operation that is
\* called between the assignments.
InitAny == InitKind(RepoKinds)

NextAdd ==
    \/ \E e \in Obj : Add(e)
    \/ \E e \in Obj, v \in Names \cup {None} : SetName(e, v)
    \/ \E e \in Obj, v \in Obj \cup {None} : SetNamespace(e, v)

SpecAdd == InitAny /\ [][NextAdd]_vars

\* ---- the queries of a repository --------------------------------------------

\* repository.exists(id): a generator over _collection, consumed by any().
Exists(id) ==
    /\ ~Hung
    /\ last' = [op |-> "exists", entity |-> None, identifier |-> id,
                result |-> IF exists(collection, id) THEN "True" ELSE "False"]
    /\ pre' = collection
    /\ UNCHANGED <<repository_classes, class, identifier, name, namespace,
                   collection, repoKind, assigns>>

\* repository.get(id): a list built from _collection, its first item or
\* NotFoundError.
Get(id) ==
    /\ ~Hung
    /\ last' = [op |-> "get", entity |-> get(collection, id).entity,
                identifier |-> id, result |-> get(collection, id).result]
    /\ pre' = collection
    /\ UNCHANGED <<repository_classes, class, identifier, name, namespace,
                   collection, repoKind, assigns>>

\* list(repository.for_namespace(p)): a generator over _collection; the
\* base repository has no such method.
ForNamespace(p) ==
    /\ ~Hung
    /\ repoKind # "base"
    /\ last' = [op |-> "for_namespace", entity |-> p, result |-> "ok",
                found |-> for_namespace(collection, p)]
    /\ pre' = collection
    /\ UNCHANGED <<repository_classes, class, identifier, name, namespace,
                   collection, repoKind, assigns>>

\* A repository that is filled, emptied and queried, the names of the
\* entities being assigned in between.
NextQueries ==
    \/ \E e \in Obj : Add(e)
    \/ \E e \in Obj : Delete(e)
    \/ \E id \in Identifiers : Exists(id)
    \/ \E id \in Identifiers : Get(id)
    \/ \E p \in Obj \cup {None} : ForNamespace(p)
    \/ \E e \in Obj, v \in Names \cup {None} : SetName(e, v)

SpecQueries == InitDomain /\ [][NextQueries]_vars

\* ---- entities alone: construction, assignment, validate(), == and hash ------

\* Entity(name=n, namespace=ns) of class cls, the __init__ that attrs writes
\* for a @validated class: keyword-only arguments, where one without default
\* that is not given is a TypeError; a field not given takes its default
\* (None for an optional field); then the validators run on the new instance.
construct(cls, n, ns) ==
    IF n = NotGiven \/ (cls = "Repository" /\ ns = NotGiven)
    THEN [result |-> "TypeError", name |-> n, namespace |-> ns]
    ELSE LET nsv == IF ns = NotGiven THEN None ELSE ns IN
         [result |-> validate_fields(cls, n, nsv), name |-> n, namespace |-> nsv]

\* x = Entity(identifier=x.identifier, name=n, namespace=ns), where x is the
\* only reference to the object it names: when the constructor raises, x
\* still names the old object.  A scenario builds its object first, before
\* any assignment.
Construct(e, n, ns) ==
    LET r == construct(class[e], n, ns) IN
    /\ ~Hung
    /\ assigns = 0
    /\ e \notin collection
    /\ \A o \in Obj : namespace[o] # e
    /\ ns # e
    /\ name' = IF r.result = "ok" THEN [name EXCEPT ![e] = r.name] ELSE name
    /\ namespace' =
          IF r.result = "ok" THEN [namespace EXCEPT ![e] = r.namespace] ELSE namespace
    /\ assigns' = assigns + 1
    /\ last' = [op |-> "construct", entity |-> e, result |-> r.result,
                name |-> n, namespace |-> ns]
    /\ pre' = collection
    /\ UNCHANGED <<repository_classes, class, identifier, collection, repoKind>>

\* entity.validate()
Validate(e) ==
    /\ ~Hung
    /\ last' = [op |-> "validate", entity |-> e, result |-> validate(e)]
    /\ pre' = collection
    /\ UNCHANGED <<repository_classes, class, identifier, name, namespace,
                   collection, repoKind, assigns>>

\* a == b  and  hash(a), hash(b)
Compare(a, b) ==
    /\ ~Hung
    /\ last' = [op |-> "eq", entity |-> a, other |-> b,
                result |-> IF entity_eq(a, b) THEN "True" ELSE "False",
                hashes |-> <<entity_hash(a), entity_hash(b)>>]
    /\ pre' = collection
    /\ UNCHANGED <<repository_classes, class, identifier, name, namespace,
                   collection, repoKind, assigns>>

\* The pools of the entity scenarios: Namespace objects only, or Namespace
\* objects and one Repository (the last object).
InitClassEntity ==
    { [o \in Obj |-> "Namespace"],
      [o \in Obj |-> IF o = NumObj THEN "Repository" ELSE "Namespace"] }

\* Built from the last to the first: each Namespace in the next one, the last
\* Namespace without parent, the Repository in the first Namespace.
InitNamespaceEntity(cls) ==
    [o \in Obj |->
        IF cls[o] = "Repository" THEN 1
        ELSE IF o + 1 \in Obj /\ cls[o + 1] = "Namespace" THEN o + 1
        ELSE None]

\* State after construction of the pool, without a repository in use: all
\* identifiers different, or the last object built with the identifier of
\* the first one.
InitEntity ==
    /\ repository_classes = InitialClasses
    /\ identifier \in {InitIdentifier, [o \in Obj |-> o]}
    /\ class \in InitClassEntity
    /\ name = InitName
    /\ namespace = InitNamespaceEntity(class)
    /\ repoKind = "base"
    /\ collection = {}
    /\ last = [op |-> "init", entity |-> None, result |-> "ok"]
    /\ pre = {}
    /\ assigns = 0

NextEntity ==
    \/ \E e \in Obj, n \in Names \cup {None, WrongTyped, NotGiven},
          ns \in Obj \cup {None, WrongTyped, NotGiven} : Construct(e, n, ns)
    \/ \E e \in Obj, v \in Names \cup {None, WrongTyped} : SetName(e, v)
    \/ \E e \in Obj, v \in Obj \cup {None} : SetNamespace(e, v)
    \/ \E e \in Obj : Validate(e)

SpecEntity == InitEntity /\ [][NextEntity]_vars

\* The same pools, where entities are compared and hashed while their
\* fields are assigned to.
NextCompare ==
    \/ \E e \in Obj, v \in Names \cup {None, WrongTyped} : SetName(e, v)
    \/ \E a, b \in Obj : Compare(a, b)

SpecCompare == InitEntity /\ [][NextCompare]_vars

\* ---- validate_positive_integer -----------------------------------------------

\* The values handed to the validator: an int, a bool, a float (val halves:
\* 3 is 1.5, 2 is 1.0), a str, None.
MaxInt == 16

Ints == -MaxInt..MaxInt

Values ==
    [type : {"int", "float"}, val : Ints]
        \cup [type : {"bool"}, val : {0, 1}]
        \cup [type : {"str", "NoneType"}, val : {0}]

\* isinstance(value, int): bool is a subclass of int (False is 0, True is 1).
isinstance_int(value) == value.type \in {"int", "bool"}

\* Faulty validator: 0 is accepted.
validate_non_negative_integer(value, none_allowed) ==
    IF none_allowed /\ value.type = "NoneType" THEN "ok"
    ELSE IF ~isinstance_int(value) THEN "TypeError"
    ELSE IF value.val < 0 THEN "ValueError"
    ELSE "ok"

\* validate_positive_integer(value, none_allowed, display_name); display_name
\* enters the message of the exception only.
validate_positive_integer(value, none_allowed) ==
    IF none_allowed /\ value.type = "NoneType" THEN "ok"
    ELSE IF ~isinstance_int(value) THEN "TypeError"
    ELSE IF value.val <= 0 THEN "ValueError"
    ELSE "ok"

ValidatePositiveInteger(value, none_allowed) ==
    /\ last' = [op |-> "validate_positive_integer", entity |-> None,
                value |-> value, none_allowed |-> none_allowed,
                result |-> validate_positive_integer(value, none_allowed)]
    /\ UNCHANGED <<repository_classes, class, identifier, name, namespace, collection, repoKind,
                   pre, assigns>>

\* ---- validate_uuid -----------------------------------------------------------

\* The values handed to validate_uuid: a UUID (val is its version attribute,
\* 0 standing for the None of a UUID that is not an RFC 4122 one), an int,
\* a str, None.
UuidVersions == 0..5

UuidValues ==
    [type : {"UUID"}, val : UuidVersions]
        \cup [type : {"int", "str", "NoneType"}, val : {0}]

isinstance_UUID(value) == value.type = "UUID"

\* Faulty validator: the version of the UUID is not looked at.
validate_uuid_any_version(value, none_allowed) ==
    IF none_allowed /\ value.type = "NoneType" THEN "ok"
    ELSE IF ~isinstance_UUID(value) THEN "TypeError"
    ELSE "ok"

\* Faulty validator: a UUID of another version is a ValueError.
validate_uuid_value_error(value, none_allowed) ==
    IF none_allowed /\ value.type = "NoneType" THEN "ok"
    ELSE IF ~isinstance_UUID(value) THEN "TypeError"
    ELSE IF value.val # 4 THEN "ValueError"
    ELSE "ok"

\* validate_uuid(value, none_allowed, display_name); display_name enters the
\* message of the exception only.
validate_uuid(value, none_allowed) ==
    IF none_allowed /\ value.type = "NoneType" THEN "ok"
    ELSE IF ~isinstance_UUID(value) \/ value.val # 4 THEN "TypeError"
    ELSE "ok"

\* BaseEntityWithIdentifier.validate_id_is_uuid: the field validator of
\* `identifier`.
validate_id_is_uuid(value) == validate_uuid(value, FALSE)

ValidateUuid(value, none_allowed) ==
    /\ last' = [op |-> "validate_uuid", entity |-> None,
                value |-> value, none_allowed |-> none_allowed,
                result |-> validate_uuid(value, none_allowed)]
    /\ UNCHANGED <<repository_classes, class, identifier, name, namespace, collection, repoKind,
                   pre, assigns>>

ValidateIdIsUuid(value) ==
    /\ last' = [op |-> "validate_id_is_uuid", entity |-> None,
                value |-> value, none_allowed |-> FALSE,
                result |-> validate_id_is_uuid(value)]
    /\ UNCHANGED <<repository_classes, class, identifier, name, namespace, collection, repoKind,
                   pre, assigns>>

NextValidators ==
    \/ \E value \in Values, none_allowed \in BOOLEAN :
            ValidatePositiveInteger(value, none_allowed)
    \/ \E value \in UuidValues, none_allowed \in BOOLEAN :
            ValidateUuid(value, none_allowed)
    \/ \E value \in UuidValues : ValidateIdIsUuid(value)

\* The validator called with every value, next to entities it does not read.
SpecValidators == InitBase /\ [][NextValidators]_vars

\* The checks that report a value of the right type breaking a rule: the two
\* validators, and validate() on namespaces whose parents are assigned. The
\* validators read no entity: they are called before the first assignment.
NextSemantic ==
    \/ assigns = 0 /\ NextValidators
    \/ \E e \in Obj : \E v \in Obj \cup {None} : SetNamespace(e, v)
    \/ \E e \in Obj : Validate(e)

SpecSemantic == InitEntity /\ [][NextSemantic]_vars

\* ---- class statements of repository classes ---------------------------------

\* The lists of bases of a class statement: one or two different classes.
BaseLists ==
    {<<a>> : a \in ClassIds}
        \cup {bases \in ClassIds \X ClassIds : bases[1] # bases[2]}

\* class cls(*bases, abstract=abstract, entity_class=entity_class): body
\* type.__new__ linearises the bases, then calls __init_subclass__; a
\* TypeError leaves the class undefined and ends the import of the module.
DefineClass(bases) ==
    LET cls == Len(repository_classes) + 1
        rest == mro_of_bases(repository_classes, bases)
    IN  /\ last.result = "ok"
        /\ cls \in ClassIds
        /\ \A i \in 1..Len(bases) : bases[i] \in DOMAIN repository_classes
        /\ \A i \in 1..Len(rest) : rest[i] # Conflict
        /\ \E abstract \in BOOLEAN, entity_class \in Classes \cup {NoClass},
              body \in Bodies :
              LET r == init_subclass(repository_classes, cls, bases, rest,
                                     abstract, entity_class, body)
              IN  /\ repository_classes' =
                         IF r.result = "ok"
                         THEN Append(repository_classes, r.class)
                         ELSE repository_classes
                  /\ last' = [op |-> "class", entity |-> None,
                              result |-> r.result, cls |-> cls,
                              bases |-> bases, rest |-> rest,
                              abstract |-> abstract,
                              entity_class |-> entity_class, body |-> body]
        /\ UNCHANGED <<class, identifier, name, namespace, collection,
                       repoKind, pre, assigns>>

NextClasses == \E bases \in BaseLists : DefineClass(bases)

\* The class statements that follow the ones of the packages.
SpecClasses == InitBase /\ [][NextClasses]_vars

TypeOK ==
    /\ collection \subseteq Obj
    /\ pre \subseteq Obj
    /\ assigns \in 0..MaxAssign

\* ---- vocabulary of the properties -----------------------------------------

\* What a call can raise.
Errors == {"TypeError", "ValueError", "UniquenessError", "NotFoundError"}

\* validate() returns normally on e.
Valid(e) == validate(e) = "ok"

\* a and b have the same parent namespace: both none, or parents that are
\* the same entity (same class, same identifier).
SameParent(a, b) ==
    \/ namespace[a] = None /\ namespace[b] = None
    \/ /\ namespace[a] # None
       /\ namespace[b] # None
       /\ class[namespace[a]] = class[namespace[b]]
       /\ identifier[namespace[a]] = identifier[namespace[b]]

\* The domain uniqueness key: name + parent namespace.
SameKey(a, b) == name[a] = name[b] /\ SameParent(a, b)

IdCollides(c, e) == \E s \in c : identifier[s] = identifier[e]

KeyCollides(c, e) == \E s \in c : SameKey(s, e)

Ids(c) == {identifier[s] : s \in c}

\* ---- C1 -------------------------------------------------------------------
\* C1: add(e) of a valid entity e into a collection where no stored entity
\* has e's identifier or e's name + parent succeeds, and right afterwards
\* exists(e.identifier) is true and get(e.identifier) returns e.
C1_RoundTrip ==
    (/\ last.op = "add"
     /\ Valid(last.entity)
     /\ ~IdCollides(pre, last.entity)
     /\ ~KeyCollides(pre, last.entity))
    => /\ last.result = "ok"
       /\ exists(collection, identifier[last.entity])
       /\ get(collection, identifier[last.entity])
            = [result |-> "ok", entity |-> last.entity]

\* An entity was added next to another one.
C1_Witness ==
    /\ last.op = "add"
    /\ last.result = "ok"
    /\ pre # {}
    /\ last.entity \notin pre
    /\ get(collection, identifier[last.entity]).entity = last.entity

\* ---- C2 -------------------------------------------------------------------
\* C2: no two entities held in the collection have the same identifier, in
\* every state reached by add, update, delete and assignments to fields.
C2_IdentifierUnique ==
    \A a, b \in collection : identifier[a] = identifier[b] => a = b

\* An add of a second object with a stored identifier was refused, with two
\* entities stored.
C2_Witness ==
    /\ last.op = "add"
    /\ last.result = "UniquenessError"
    /\ last.entity \notin collection
    /\ IdCollides(collection, last.entity)
    /\ Cardinality(collection) >= 2

\* ---- C3 -------------------------------------------------------------------
\* C3 as stated: add(e2) raises UniquenessError whenever the collection
\* holds an entity with e2's identifier, and the collection is unchanged.
C3_Original ==
    (last.op = "add" /\ IdCollides(pre, last.entity))
    => (last.result = "UniquenessError" /\ collection = pre)

\* C3 amended: add(e2) of an entity e2 that passes validate() raises
\* UniquenessError whenever the collection holds an entity with e2's
\* identifier, and the collection is unchanged.
C3_AddExistingIdentifier ==
    (last.op = "add" /\ Valid(last.entity) /\ IdCollides(pre, last.entity))
    => (last.result = "UniquenessError" /\ collection = pre)

\* e2 is another object than the stored one, with another name, and only the
\* identifier collides.
C3_Witness ==
    /\ last.op = "add"
    /\ last.result = "UniquenessError"
    /\ Valid(last.entity)
    /\ last.entity \notin pre
    /\ IdCollides(pre, last.entity)
    /\ ~KeyCollides(pre, last.entity)
    /\ collection = pre

\* ---- C4 -------------------------------------------------------------------
\* C4 as stated: add(e) raises UniquenessError if and only if a stored entity
\* has e's identifier or e's name and parent.
C4_Original ==
    last.op = "add"
    => (last.result = "UniquenessError"
          <=> (IdCollides(pre, last.entity) \/ KeyCollides(pre, last.entity)))

\* C4 amended: for an entity e that passes validate(), add(e) raises
\* UniquenessError if and only if a stored entity has e's identifier or e's
\* name and parent (two entities without parent have the same parent), and
\* succeeds otherwise, so with a stored name under another parent.
C4_DomainUniqueness ==
    (last.op = "add" /\ Valid(last.entity))
    => /\ last.result = "UniquenessError"
            <=> (IdCollides(pre, last.entity) \/ KeyCollides(pre, last.entity))
       /\ last.result = "ok"
            <=> ~(IdCollides(pre, last.entity) \/ KeyCollides(pre, last.entity))

\* Refused for name + no parent alone: the two entities have no parent, the
\* same name and different identifiers.
C4_Witness ==
    /\ last.op = "add"
    /\ last.result = "UniquenessError"
    /\ Valid(last.entity)
    /\ ~IdCollides(pre, last.entity)
    /\ namespace[last.entity] = None
    /\ \E s \in pre : name[s] = name[last.entity] /\ namespace[s] = None

\* ---- C5 -------------------------------------------------------------------
\* C5 as stated: no two distinct stored entities have the same name and the
\* same parent, in every state reached by add, update, delete and
\* assignments to fields of entities, stored ones included.
C5_Original ==
    \A a, b \in collection : a # b => ~SameKey(a, b)

\* C5 amended: every step other than an assignment to a field of a stored
\* entity (add, update, delete, an assignment on an entity that is not
\* stored) leads from a collection where no two entities share name and
\* parent to one where none do.
C5_KeyUniquePreserved ==
    [][(C5_Original /\ ~(last'.op = "setattr" /\ last'.entity \in collection))
        => C5_Original']_vars

\* Two entities with the same name are stored under different parents after
\* an add or update that had the name + parent check to pass.
C5_Witness ==
    /\ last.op \in {"add", "update"}
    /\ last.result = "ok"
    /\ C5_Original
    /\ \E s \in collection \ {last.entity} :
          name[s] = name[last.entity] /\ ~SameParent(s, last.entity)

\* ---- C6 -------------------------------------------------------------------
\* C6: if update(entity) raises an error, the collection holds the same
\* entities after the call as before it.
C6_UpdateAtomic ==
    (last.op = "update" /\ last.result \in Errors) => collection = pre

\* ---- C7 -------------------------------------------------------------------
\* C7: when update(entity) raises UniquenessError (validation and the delete
\* step have passed, the add step raises), the entity is absent afterwards:
\* exists(entity.identifier) is false, get raises NotFoundError, and every
\* other stored entity is still there.
C7_FailedUpdateRemoves ==
    (last.op = "update" /\ last.result = "UniquenessError")
    => /\ ~exists(collection, identifier[last.entity])
       /\ get(collection, identifier[last.entity]).result = "NotFoundError"
       /\ collection = {s \in pre : identifier[s] # identifier[last.entity]}

\* The update of a stored entity was refused and took it out of a collection
\* of two.
C7_Witness ==
    /\ last.op = "update"
    /\ last.result = "UniquenessError"
    /\ last.entity \in pre
    /\ Cardinality(pre) >= 2
    /\ collection = pre \ {last.entity}

\* ---- C8 -------------------------------------------------------------------
\* C8: if add(entity) raises an error (TypeError or ValueError of validate,
\* UniquenessError of the identifier or name + parent check), the collection
\* holds the same entities after the call as before it.
C8_FailedAddNoEffect ==
    (last.op = "add" /\ last.result \in Errors) => collection = pre

\* An invalid entity whose identifier and name + parent are free was refused
\* by a repository that holds an entity.
C8_Witness ==
    /\ last.op = "add"
    /\ last.result \in {"TypeError", "ValueError"}
    /\ pre # {}
    /\ ~IdCollides(pre, last.entity)
    /\ ~KeyCollides(pre, last.entity)
    /\ collection = pre

\* ---- C9 -------------------------------------------------------------------
\* C9: update(entity) of a stored, valid entity that has the name and the
\* parent of another stored entity raises UniquenessError (the name was
\* changed, or the parent was set to the other's, or cleared as the other's).
C9_UpdateCollision ==
    (/\ last.op = "update"
     /\ last.entity \in pre
     /\ Valid(last.entity)
     /\ \E s \in pre \ {last.entity} : SameKey(s, last.entity))
    => last.result = "UniquenessError"

\* The collision came from moving the entity under the parent of the other
\* stored entity.
C9_Witness ==
    /\ last.op = "update"
    /\ last.result = "UniquenessError"
    /\ last.entity \in pre
    /\ Valid(last.entity)
    /\ namespace[last.entity] # None
    /\ \E s \in pre \ {last.entity} : SameKey(s, last.entity)

\* ---- C10 ------------------------------------------------------------------
\* C10: when update(entity) returns, get(entity.identifier) returns the
\* entity passed to update, with the field values it has now, and the
\* collection holds the same identifiers as before the update.
C10_UpdateVisible ==
    (last.op = "update" /\ last.result = "ok")
    => /\ get(collection, identifier[last.entity])
            = [result |-> "ok", entity |-> last.entity]
       /\ Ids(collection) = Ids(pre)

\* A stored entity got a new name and was updated, next to another one.
C10_Witness ==
    /\ last.op = "update"
    /\ last.result = "ok"
    /\ last.entity \in pre
    /\ name[last.entity] # InitName[last.entity]
    /\ Cardinality(collection) >= 2

\* ---- C11 ------------------------------------------------------------------
\* C11: update(entity) of a valid entity whose identifier no stored entity
\* has raises NotFoundError, and the collection is the same afterwards: the
\* entity was not inserted.
C11_UpdateNotFound ==
    (/\ last.op = "update"
     /\ Valid(last.entity)
     /\ ~IdCollides(pre, last.entity))
    => /\ last.result = "NotFoundError"
       /\ collection = pre
       /\ last.entity \notin collection

\* The update of an entity that is not stored was refused by a repository
\* that holds other entities, and the entity's name + parent was free.
C11_Witness ==
    /\ last.op = "update"
    /\ last.result = "NotFoundError"
    /\ Valid(last.entity)
    /\ pre # {}
    /\ ~KeyCollides(pre, last.entity)
    /\ collection = pre

\* ---- C12 ------------------------------------------------------------------
\* C12: update(entity) of an entity whose identifier is stored and whose
\* field values fail validate() raises that TypeError or ValueError, and
\* nothing was removed: exists(entity.identifier) is still true and the
\* collection holds the same entities.
C12_InvalidUpdateKeeps ==
    (/\ last.op = "update"
     /\ IdCollides(pre, last.entity)
     /\ validate(last.entity) \in {"TypeError", "ValueError"})
    => /\ last.result = validate(last.entity)
       /\ exists(collection, identifier[last.entity])
       /\ collection = pre

\* A stored namespace was made its own parent and its update raised
\* ValueError.
C12_Witness ==
    /\ last.op = "update"
    /\ last.result = "ValueError"
    /\ last.entity \in pre
    /\ namespace[last.entity] = last.entity
    /\ collection = pre

\* ---- C13 ------------------------------------------------------------------
\* C13: delete(e) with e's identifier stored succeeds and removes the entity
\* of that identifier, after which exists(e.identifier) is false and
\* get(e.identifier) raises NotFoundError, the other entities being kept;
\* delete(e) with e's identifier not stored (as in a second delete of e)
\* raises NotFoundError and leaves the collection as it was.
C13_Delete ==
    last.op = "delete"
    => IF IdCollides(pre, last.entity)
       THEN /\ last.result = "ok"
            /\ ~exists(collection, identifier[last.entity])
            /\ get(collection, identifier[last.entity]).result = "NotFoundError"
            /\ collection = {s \in pre : identifier[s] # identifier[last.entity]}
       ELSE /\ last.result = "NotFoundError"
            /\ collection = pre

\* A stored entity was deleted from a collection of two.
C13_Witness ==
    /\ last.op = "delete"
    /\ last.result = "ok"
    /\ last.entity \in pre
    /\ Cardinality(pre) >= 2
    /\ collection = pre \ {last.entity}

\* ---- C14 ------------------------------------------------------------------
\* The parent namespace of s is p: both none, or the parent of s is the
\* entity p (same class, same identifier).
ParentIs(s, p) ==
    IF p = None THEN namespace[s] = None
    ELSE /\ namespace[s] # None
         /\ class[namespace[s]] = class[p]
         /\ identifier[namespace[s]] = identifier[p]

\* C14: for every p (a namespace or None), for_namespace(p) yields exactly
\* the stored entities whose parent namespace is now p (None: the ones
\* without parent), so nothing when there is none; and when update(entity)
\* succeeds, the entity is yielded for its present parent and for no other p,
\* so no longer for the parent it had before it was moved.
C14_ForNamespace ==
    /\ \A p \in Obj \cup {None} :
          for_namespace(collection, p) = {s \in collection : ParentIs(s, p)}
    /\ (last.op = "update" /\ last.result = "ok")
       => /\ last.entity \in for_namespace(collection, namespace[last.entity])
          /\ \A p \in Obj \cup {None} :
                ~ParentIs(last.entity, p)
                => last.entity \notin for_namespace(collection, p)

\* A stored namespace without parent was moved under a stored namespace and
\* updated: it is yielded for the new parent, also when asked with another
\* object of the parent's identifier, and not for None, which still yields
\* the other entity.
C14_Witness ==
    /\ last.op = "update"
    /\ last.result = "ok"
    /\ last.entity \in pre
    /\ InitNamespace(repoKind)[last.entity] = None
    /\ namespace[last.entity] \in collection
    /\ \E p \in Obj \ {namespace[last.entity]} :
          last.entity \in for_namespace(collection, p)
    /\ last.entity \notin for_namespace(collection, None)
    /\ for_namespace(collection, None) # {}

\* ---- C15 ------------------------------------------------------------------
\* C15: every assignment to the identifier of an entity raises
\* FrozenAttributeError, and every entity has, in every state, the identifier
\* it was built with: the one read after a failed assignment is the one read
\* before it.
C15_IdentifierFrozen ==
    /\ last.op = "setidentifier" => last.result = "FrozenAttributeError"
    /\ identifier = InitIdentifier

\* The assignment was tried on a stored entity, with the identifier of
\* another stored entity.
C15_Witness ==
    /\ last.op = "setidentifier"
    /\ last.result = "FrozenAttributeError"
    /\ last.entity \in collection
    /\ \E s \in collection : identifier[s] # identifier[last.entity]

\* ---- vocabulary of the entity properties -----------------------------------

\* a and b are the same entity: same class, same identifier.
SameEntity(a, b) == class[a] = class[b] /\ identifier[a] = identifier[b]

\* v is a value of the right type for a namespace field: a Namespace object.
IsNamespace(v) == v \in Obj /\ class[v] = "Namespace"

\* v is neither None nor of the right type for a namespace field.
IsWrongNamespace(v) == v = WrongTyped \/ (v \in Obj /\ class[v] # "Namespace")

\* The object k parent links above o, None past the end of the chain.
RECURSIVE Up(_, _)
Up(o, k) ==
    IF k = 0 THEN o
    ELSE LET below == Up(o, k - 1) IN
         IF below = None THEN None ELSE namespace[below]

\* o is on a cycle of parent links.
InCycle(o) == \E k \in 1..NumObj : Up(o, k) = o

\* The chain of parent links from o ends (without parent) and no entity is
\* met twice on it.
LoopFree(o) ==
    /\ \E k \in 1..NumObj : Up(o, k) = None
    /\ \A i, j \in 0..NumObj :
          (i < j /\ Up(o, j) # None) => ~SameEntity(Up(o, i), Up(o, j))

\* ---- C16 ------------------------------------------------------------------
\* C16: for the required fields that are not frozen (name of both classes,
\* namespace of Repository): a constructor given None or a value of another
\* type raises TypeError; given values of the right types it succeeds, the
\* fields hold the values and validate() does not raise; an assignment after
\* construction raises nothing, None or a value of another type included,
\* and while a required field holds such a value validate() raises TypeError.
C16_RequiredField ==
    /\ last.op = "construct"
       => /\ last.name \in {None, WrongTyped} => last.result = "TypeError"
          /\ (class[last.entity] = "Repository"
                /\ (last.namespace = None \/ IsWrongNamespace(last.namespace)))
             => last.result = "TypeError"
          /\ (/\ last.name \in Names
              /\ \/ class[last.entity] = "Repository" /\ IsNamespace(last.namespace)
                 \/ class[last.entity] = "Namespace" /\ last.namespace = None)
             => /\ last.result = "ok"
                /\ name[last.entity] = last.name
                /\ namespace[last.entity] = last.namespace
                /\ validate(last.entity) = "ok"
    /\ last.op = "setattr" => last.result = "ok"
    /\ \A e \in Obj :
          /\ name[e] \notin Names => validate(e) = "TypeError"
          /\ (class[e] = "Repository" /\ ~IsNamespace(namespace[e]))
             => validate(e) = "TypeError"
    /\ last.op = "validate"
       => (name[last.entity] \notin Names => last.result = "TypeError")

\* The name of an entity was set to None after construction, which raised
\* nothing; the value is stored and validate() raised TypeError.
C16_Witness ==
    /\ last.op = "validate"
    /\ last.result = "TypeError"
    /\ name[last.entity] = None
    /\ InitName[last.entity] # None

TypeValid(e) ==
    /\ class[e] = "Namespace"
    /\ name[e] \in Names
    /\ namespace[e] = None \/ IsNamespace(namespace[e])

\* The objects on the cycle of o.
Cycle(o) == {Up(o, k) : k \in 1..NumObj}

\* In every state, for a Namespace of valid name: on a cycle of parent links
\* validate() raises ValueError; on a chain that ends and meets no entity
\* twice validate() succeeds.
C18_Detected ==
    \A e \in Obj :
        TypeValid(e)
        => /\ InCycle(e) => validate(e) = "ValueError"
           /\ LoopFree(e) => validate(e) = "ok"

\* A step that sets to None the parent of one namespace of a cycle of
\* different namespaces: validate() succeeds afterwards on each of them.
C18_Broken ==
    (namespace' # namespace /\ name' = name)
    => \A x \in Obj :
         (namespace[x] # None /\ namespace' = [namespace EXCEPT ![x] = None])
         => \A e \in Obj :
              (/\ InCycle(e)
               /\ x \in Cycle(e)
               /\ \A a, b \in Cycle(e) : a # b => ~SameEntity(a, b)
               /\ \A a \in Cycle(e) : class[a] = "Namespace" /\ name[a] \in Names)
              => validate(e)' = "ok"

\* C18: when the parent links of namespaces form a cycle (a namespace that is
\* its own parent, A -> B -> C -> A), validate() raises ValueError on every
\* namespace of the cycle; on a chain without cycle validate() succeeds on
\* every member; and once one link of a cycle is set to None, validate()
\* succeeds on all the former members.  (Namespaces of valid name.)
C18_LoopDetection == []C18_Detected /\ [][C18_Broken]_vars

\* validate() raised ValueError on a namespace of a cycle of three
\* namespaces with three identifiers.
C18_Witness ==
    /\ last.op = "validate"
    /\ last.result = "ValueError"
    /\ InCycle(last.entity)
    /\ Cardinality(Cycle(last.entity)) >= 3
    /\ \A a, b \in Cycle(last.entity) : a # b => ~SameEntity(a, b)

\* ---- C19 ------------------------------------------------------------------
\* C19: two entities are equal exactly when they have the same class and the
\* same identifier, whatever the values of their other fields (so instances
\* with different identifiers, or of different classes, are not equal), and
\* two equal entities have the same hash.
C19_EqualityAndHash ==
    /\ \A a, b \in Obj :
          /\ entity_eq(a, b) <=> SameEntity(a, b)
          /\ SameEntity(a, b) => entity_hash(a) = entity_hash(b)
    /\ last.op = "eq"
       => /\ last.result = "True" <=> SameEntity(last.entity, last.other)
          /\ last.result = "True" => last.hashes[1] = last.hashes[2]

\* Two objects of one class and one identifier, with different names and
\* different parents, compared equal and had the same hash.
C19_Witness ==
    /\ last.op = "eq"
    /\ last.result = "True"
    /\ last.entity # last.other
    /\ name[last.entity] # name[last.other]
    /\ namespace[last.entity] # namespace[last.other]
    /\ last.hashes[1] = last.hashes[2]

\* ---- C20 ------------------------------------------------------------------
\* value is an integer for Python: an int (a bool is one).
IsInteger(value) == value.type \in {"int", "bool"}

\* C20: validate_positive_integer(value, none_allowed, name) returns normally
\* exactly when value is an integer > 0, or value is None and none_allowed
\* is true; it raises TypeError exactly when value is not an integer and is
\* not a None that is allowed; it raises ValueError exactly when value is an
\* integer <= 0.
C20_PositiveInteger ==
    last.op = "validate_positive_integer"
    => LET value == last.value
           allowedNone == last.value.type = "NoneType" /\ last.none_allowed
       IN  /\ last.result = "ok"
                <=> ((IsInteger(value) /\ value.val > 0) \/ allowedNone)
           /\ last.result = "TypeError"
                <=> (~IsInteger(value) /\ ~allowedNone)
           /\ last.result = "ValueError"
                <=> (IsInteger(value) /\ value.val <= 0)

\* The validator refused 0 with ValueError, None being allowed.
C20_Witness ==
    /\ last.op = "validate_positive_integer"
    /\ last.value = [type |-> "int", val |-> 0]
    /\ last.none_allowed
    /\ last.result = "ValueError"

\* ---- C21 ------------------------------------------------------------------
\* value is a UUID of version 4.
IsUuid4(value) == value.type = "UUID" /\ value.val = 4

\* C21: validate_uuid(value, none_allowed, name) returns normally exactly
\* when value is a version-4 UUID, or value is None and none_allowed is true;
\* in every other case (a value that is not a UUID, a UUID of another
\* version, None when none_allowed is false) it raises TypeError. The field
\* validator of `identifier` is that call with none_allowed false.
C21_ValidateUuid ==
    /\ last.op = "validate_uuid"
       => LET allowedNone == last.value.type = "NoneType" /\ last.none_allowed
          IN  /\ last.result = "ok" <=> (IsUuid4(last.value) \/ allowedNone)
              /\ last.result # "ok" => last.result = "TypeError"
    /\ last.op = "validate_id_is_uuid"
       => /\ last.result = "ok" <=> IsUuid4(last.value)
          /\ last.result # "ok" => last.result = "TypeError"

\* The validator refused a version-1 UUID with TypeError, None being allowed.
C21_Witness ==
    /\ last.op = "validate_uuid"
    /\ last.value = [type |-> "UUID", val |-> 1]
    /\ last.none_allowed
    /\ last.result = "TypeError"

\* ---- C22 ------------------------------------------------------------------
\* The call reported by `last` was given a value of the right type that
\* breaks the rule of the check: an integer <= 0, a UUID whose version is not
\* 4, a namespace on a cycle of parent links (its fields of the right types).
NonPositiveInteger ==
    /\ last.op = "validate_positive_integer"
    /\ IsInteger(last.value)
    /\ last.value.val <= 0

WrongVersionUuid ==
    /\ last.op \in {"validate_uuid", "validate_id_is_uuid"}
    /\ last.value.type = "UUID"
    /\ last.value.val # 4

NamespaceOnCycle ==
    /\ last.op = "validate"
    /\ TypeValid(last.entity)
    /\ InCycle(last.entity)

\* C22 as stated: a value of the right type that fails a domain rule is
\* reported with ValueError, for a non-positive integer, for a UUID that is
\* not version 4 and for a namespace parent cycle.
C22_Original ==
    (NonPositiveInteger \/ WrongVersionUuid \/ NamespaceOnCycle)
    => last.result = "ValueError"

\* C22 amended: a non-positive integer and a namespace parent cycle are
\* reported with ValueError; a UUID that is not version 4 is reported with
\* TypeError, as a value that is not a UUID is.
C22_SemanticViolation ==
    /\ (NonPositiveInteger \/ NamespaceOnCycle) => last.result = "ValueError"
    /\ WrongVersionUuid => last.result = "TypeError"

\* The identifier validator refused a version-1 UUID with TypeError.
C22_Witness ==
    /\ last.op = "validate_id_is_uuid"
    /\ last.value = [type |-> "UUID", val |-> 1]
    /\ last.result = "TypeError"

\* ---- C23 ------------------------------------------------------------------
\* The repository classes that went through __init_subclass__.
Subclasses == DOMAIN repository_classes \ {AbstractRepository}

\* issubclass(t, u) for exception types: u is t or an ancestor of t.
RECURSIVE IsSubclass(_, _)
IsSubclass(t, u) ==
    \/ t = u
    \/ \E i \in 1..Len(t.bases) : IsSubclass(t.bases[i], u)

\* The type of the exception that a repository of class r raises for the
\* shared kind: self.NotFoundError or self.UniquenessError.
ErrorTypeOf(r, shared) ==
    IF shared = NotFoundError THEN repository_classes[r].NotFoundError
    ELSE repository_classes[r].UniquenessError

\* C23: every repository class has its own NotFoundError and UniquenessError
\* types: the error that a repository class R raises is of R's own type,
\* which is bound to R, and of the shared base kind (and of no other kind);
\* it is not of the corresponding type of any other repository class, the
\* parent classes of R included.
C23_OwnErrorTypes ==
    \A r \in Subclasses : \A shared \in {NotFoundError, UniquenessError} :
        LET t == ErrorTypeOf(r, shared) IN
        /\ t.repository = r
        /\ t # shared
        /\ IsSubclass(t, shared)
        /\ IsSubclass(t, RepositoryException)
        /\ \A other \in {NotFoundError, UniquenessError} \ {shared} :
              ~IsSubclass(t, other)
        /\ \A o \in Subclasses \ {r} : ~IsSubclass(t, ErrorTypeOf(o, shared))

\* A class was defined below AbstractInMemoryRepository and
\* AbstractNamespaceRepository: it has two parent classes with error types.
C23_Witness ==
    /\ last.op = "class"
    /\ last.result = "ok"
    /\ last.bases = <<AbstractInMemoryRepository, AbstractNamespaceRepository>>
    /\ last.cls \in Subclasses

\* ---- C24 ------------------------------------------------------------------
\* The class k has an entity class of its own.
HasEntityClass(k) == repository_classes[k].entity_class \notin {Absent, NoClass}

\* The entity class of the nearest class of the resolution order `rest` that
\* has one, NoClass when there is none.
NearestEntityClass(rest) ==
    LET with == {i \in 1..Len(rest) : HasEntityClass(rest[i])} IN
    IF with = {} THEN NoClass
    ELSE repository_classes[rest[First(with)]].entity_class

\* The class of body `body` and ancestors `rest` has abstract methods: it
\* declares one, or the nearest class that has a method m and is not
\* followed down to the class by a definition of m declares it abstract.
HasAbstractMethods(body, rest) ==
    \/ body.abstract # {}
    \/ \E m \in Methods \ body.concrete :
          \E i \in 1..Len(rest) :
             /\ m \in repository_classes[rest[i]].body.abstract
             /\ \A j \in 1..(i - 1) :
                   m \notin repository_classes[rest[j]].body.concrete

C25_Terminates ==
    last.op \in {"construct", "validate", "add", "update"}
    => last.result \in {"ok"} \cup Errors

\* ---- C26 ------------------------------------------------------------------
\* add(e) was called with an entity on which validate() raises.
AddOfInvalid ==
    /\ last.op = "add"
    /\ validate(last.entity) \in {"TypeError", "ValueError"}

\* C26 as stated: add validates the entity before any uniqueness check: an
\* entity that fails validate() and collides with a stored entity on
\* identifier or on name + parent gets the validation error and not
\* UniquenessError, in the base in-memory repository and in the Namespace and
\* Repository repositories.
C26_Original ==
    (AddOfInvalid /\ (IdCollides(pre, last.entity) \/ KeyCollides(pre, last.entity)))
    => last.result = validate(last.entity)

\* C26 amended: the base in-memory add validates the entity before its
\* identifier check, so that an invalid entity gets the validation error
\* there, and in the Namespace and Repository repositories when it collides
\* on identifier only; these two check name + parent before they validate:
\* an invalid entity that collides on name + parent gets UniquenessError.
C26_ValidateFirst ==
    AddOfInvalid
    => IF repoKind # "base" /\ KeyCollides(pre, last.entity)
       THEN last.result = "UniquenessError"
       ELSE last.result = validate(last.entity)

\* In the base repository, add refused with the validation error an invalid
\* entity whose identifier and whose name + parent are the ones of a stored
\* entity.
C26_Witness ==
    /\ AddOfInvalid
    /\ repoKind = "base"
    /\ IdCollides(pre, last.entity)
    /\ KeyCollides(pre, last.entity)
    /\ last.result = validate(last.entity)

\* ---- C27 ------------------------------------------------------------------
\* update(e) was called for a valid entity whose identifier is stored, and
\* no stored entity of another identifier has the name and the parent of e.
UpdateWithFreeKey ==
    /\ last.op = "update"
    /\ IdCollides(pre, last.entity)
    /\ Valid(last.entity)
    /\ ~\E s \in pre : identifier[s] # identifier[last.entity]
                          /\ SameKey(s, last.entity)

\* Such an update succeeds: the entry of that identifier is replaced by e,
\* which does not collide with the entry it replaces.
C27_Succeeds ==
    UpdateWithFreeKey
    => /\ last.result = "ok"
       /\ collection
            = {s \in pre : identifier[s] # identifier[last.entity]}
                  \cup {last.entity}

\* A step that repeats an update that succeeded succeeds and leaves the
\* collection the same.
C27_Repeated ==
    (/\ last.op = "update"
     /\ last.result = "ok"
     /\ last'.op = "update"
     /\ last'.entity = last.entity)
    => /\ last'.result = "ok"
       /\ collection' = collection

\* C27: update removes the old entry before the uniqueness checks of add
\* run, so that an entity never collides with itself: update(e) of a stored
\* valid entity whose name and parent are unchanged, or changed to values
\* that no other stored entity uses, succeeds, and repeating the same update
\* leaves the collection the same.
C27_NoSelfCollision == []C27_Succeeds /\ [][C27_Repeated]_vars

\* A stored entity, unchanged since it was added next to another one, was
\* updated: the update succeeded and the collection is the same.
C27_Witness ==
    /\ last.op = "update"
    /\ last.result = "ok"
    /\ last.entity \in pre
    /\ pre \ {last.entity} # {}
    /\ assigns = 0
    /\ collection = pre

\* ---- C28 ------------------------------------------------------------------
\* C28: on a field with the built-in type check and a custom field validator
\* (namespace of Namespace) the type check runs first: a value of another
\* type raises the TypeError of the type check, also when the custom
\* validator would refuse the value (it is on a cycle of parent links);
\* validate() checks the current values of the declared fields in order and
\* raises the error of the first failing check: the TypeError of `name`
\* before anything about `namespace`, the ValueError of the loop validator
\* when both type checks pass.
C28_TypeCheckFirst ==
    (last.op = "validate" /\ class[last.entity] = "Namespace")
    => LET e == last.entity
           wrongName == name[e] \notin Names
           wrongType == IsWrongNamespace(namespace[e])
           onCycle == namespace[e] \in Obj /\ InCycle(namespace[e])
       IN  /\ wrongName => last.result = "TypeError"
           /\ (~wrongName /\ wrongType) => last.result = "TypeError"
           /\ (~wrongName /\ ~wrongType /\ onCycle)
                 => last.result = "ValueError"

\* validate() raised TypeError on a Namespace of valid name whose namespace
\* is a Repository that is on a cycle of parent links with it.
C28_Witness ==
    /\ last.op = "validate"
    /\ last.result = "TypeError"
    /\ class[last.entity] = "Namespace"
    /\ name[last.entity] \in Names
    /\ namespace[last.entity] \in Obj
    /\ class[namespace[last.entity]] = "Repository"
    /\ InCycle(namespace[last.entity])

\* ---- C29 ------------------------------------------------------------------
\* C29 as stated: every entity held in the collection is valid, in every
\* state reached by add, update, delete and assignments to fields of
\* entities, stored ones included: validate() succeeds on each stored
\* entity.
C29_Original ==
    \A s \in collection : Valid(s)

\* add and update store valid entities only.
C29_StoredValid ==
    (last.op \in {"add", "update"} /\ last.result = "ok")
    => /\ last.entity \in collection
       /\ Valid(last.entity)

\* A step that is not an assignment to a field leads from a collection of
\* valid entities to a collection of valid entities.
C29_KeptValid ==
    (last'.op # "setattr" /\ C29_Original) => C29_Original'

\* C29 amended: the entity that add or update stores is valid when the call
\* returns, and add, update and delete keep every stored entity valid; an
\* assignment to a field of an entity is not validated and can leave a
\* stored entity invalid until the next validate().
C29_ValidWhenStored == []C29_StoredValid /\ [][C29_KeptValid]_vars

\* An update stored an entity whose fields were assigned since it was added,
\* next to another stored entity; all the stored entities are valid.
C29_Witness ==
    /\ last.op = "update"
    /\ last.result = "ok"
    /\ assigns > 0
    /\ collection \ {last.entity} # {}
    /\ C29_Original

\* ---- C30 ------------------------------------------------------------------
\* C30: delete(e) matches by identifier only and removes exactly one entry:
\* when an entity of e's identifier is stored, delete(e) succeeds, also
\* when e is another object than the stored one or has other field values,
\* the entry removed is the one of e's identifier and every other stored
\* entity is left; exists, get and for_namespace never change the
\* collection.
C30_DeleteByIdentifier ==
    /\ (last.op = "delete" /\ IdCollides(pre, last.entity))
       => /\ last.result = "ok"
          /\ collection \subseteq pre
          /\ Cardinality(pre \ collection) = 1
          /\ \A s \in pre \ collection : identifier[s] = identifier[last.entity]
    /\ last.op \in {"exists", "get", "for_namespace"} => collection = pre

\* delete(e) removed the stored entity of e's identifier, which is another
\* object than e and has another name, and left the other stored entity.
C30_Witness ==
    /\ last.op = "delete"
    /\ last.result = "ok"
    /\ last.entity \notin pre
    /\ \E s \in pre \ collection : name[s] # name[last.entity]
    /\ collection # {}
====
